---- MODULE Spec2Model ----
\* Model of gfx/flag_check.py: read_tags_from_file, validate_flags,
\* create_missing_flags and the interactive driver under __main__.
\* Strings are sequences of one-character strings, so that strip(), lower(),
\* the regular expression and str.format() are computed character by character.
EXTENDS Integers, Sequences, FiniteSets, TLC

VARIABLES
  pc,              \* position of the driver
  dir,             \* the flag folder: file name -> entry
  dir0,            \* the folder as it was when the run started
  tags,            \* driver: result of read_tags_from_file
  missing_flags,   \* driver: result of the initial validate_flags
  typed,           \* driver: what was typed at the (y/n) prompt
  create_missing,  \* driver: the answer after strip() and lower()
  success,         \* driver: result of create_missing_flags
  recheck,         \* driver: what the verification validate_flags returned
  trace,           \* driver: the functions called so far, in call order
  call             \* a direct call of one function: arguments, folder before, result

vars == <<pc, dir, dir0, tags, missing_flags, typed, create_missing, success, recheck,
          trace, call>>

\* ---------------------------------------------------------------- bounds
MaxLines == 2      \* lines in a tag file
MaxTags == 2       \* length of a tag list handed to validate_flags
MaxMissing == 2    \* length of a missing-list handed to create_missing_flags
MaxOdd == 2        \* directory entries that are not ordinary flag files at start

\* ---------------------------------------------------------------- characters
Upper == {"A","B","C","D","E","F","G","H","I","J","K","L","M",
          "N","O","P","Q","R","S","T","U","V","W","X","Y","Z"}
Digits == {"0","1","2","3","4","5","6","7","8","9"}
\* the character class [A-Z0-9] of the pattern
TagChars == Upper \cup Digits
\* what str.strip() removes and what \s matches
Whitespace == {" ", "\t", "\n"}

RECURSIVE LStrip(_)
LStrip(s) == IF s # <<>> /\ Head(s) \in Whitespace THEN LStrip(Tail(s)) ELSE s

RECURSIVE RStrip(_)
RStrip(s) ==
  IF s # <<>> /\ s[Len(s)] \in Whitespace THEN RStrip(SubSeq(s, 1, Len(s) - 1)) ELSE s

\* str.strip()
Strip(s) == RStrip(LStrip(s))

\* str.lower() on the characters the confirmation prompt is tried with
LowerChar(c) ==
  CASE c = "Y" -> "y"
    [] c = "E" -> "e"
    [] c = "S" -> "s"
    [] c = "N" -> "n"
    [] OTHER -> c

Lower(s) == [i \in 1..Len(s) |-> LowerChar(s[i])]

\* ---------------------------------------------------------------- read_tags_from_file
\* re.match returns None
NoMatch == <<>>

\* index of the first character at or after i that \s* does not consume
RECURSIVE SkipSpace(_, _)
SkipSpace(line, i) ==
  IF i <= Len(line) /\ line[i] \in Whitespace THEN SkipSpace(line, i + 1) ELSE i

\* bug variant: the pattern written as [A-Z0-9]{1,3}
TagMatchOneToThree(line) ==
  LET run == CHOOSE n \in 0..Len(line) :
               /\ \A i \in 1..n : line[i] \in TagChars
               /\ (n < Len(line) => line[n + 1] \notin TagChars)
      k == SkipSpace(line, run + 1)
  IN IF run \in 1..3 /\ k <= Len(line) /\ line[k] = "="
       THEN SubSeq(line, 1, run)
       ELSE NoMatch

\* re.match(r'([A-Z0-9]{3})\s*=', line) and group(1)
TagMatch(line) ==
  IF /\ Len(line) >= 3
     /\ \A i \in 1..3 : line[i] \in TagChars
     /\ SkipSpace(line, 4) <= Len(line)
     /\ line[SkipSpace(line, 4)] = "="
    THEN SubSeq(line, 1, 3)
    ELSE NoMatch

\* failAt: 0 = open() raises, k = the k-th fetch from the file raises (the fetch
\* after the last line is the one that finds the end), NoFail = nothing raises
NoFail == -1

\* bug variant: the except clause returns what was collected so far
RECURSIVE ReadLoopKeep(_, _, _, _)
ReadLoopKeep(lines, i, acc, failAt) ==
  IF failAt = 0 THEN <<>>
  ELSE IF failAt = i THEN acc
  ELSE IF i > Len(lines) THEN acc
  ELSE LET line == Strip(lines[i])
       IN IF line = <<>> \/ line[1] = "#"
            THEN ReadLoopKeep(lines, i + 1, acc, failAt)
            ELSE IF TagMatch(line) # NoMatch
                   THEN ReadLoopKeep(lines, i + 1, Append(acc, TagMatch(line)), failAt)
                   ELSE ReadLoopKeep(lines, i + 1, acc, failAt)

\* the for loop over the file, inside the try block
RECURSIVE ReadLoop(_, _, _, _)
ReadLoop(lines, i, acc, failAt) ==
  IF failAt = 0 THEN <<>>
  ELSE IF failAt = i THEN <<>>
  ELSE IF i > Len(lines) THEN acc
  ELSE LET line == Strip(lines[i])
       IN IF line = <<>> \/ line[1] = "#"
            THEN ReadLoop(lines, i + 1, acc, failAt)
            ELSE IF TagMatch(line) # NoMatch
                   THEN ReadLoop(lines, i + 1, Append(acc, TagMatch(line)), failAt)
                   ELSE ReadLoop(lines, i + 1, acc, failAt)

read_tags_from_file(lines, failAt) == ReadLoop(lines, 1, <<>>, failAt)

\* ---------------------------------------------------------------- the folder
\* tags the folder is populated for
GHO == <<"G", "H", "O">>
USA == <<"U", "S", "A">>
TagUniverse == {GHO, USA}

\* required_flags, in the order of the list literal
required_flags == <<
  <<"{tag}", ".", "t", "g", "a">>,
  <<"{tag}", "_", "f", "a", "s", "c", "i", "s", "t", ".", "t", "g", "a">>,
  <<"{tag}", "_", "c", "o", "m", "m", "u", "n", "i", "s", "t", ".", "t", "g", "a">>,
  <<"{tag}", "_", "m", "o", "n", "a", "r", "c", "h", "y", ".", "t", "g", "a">>,
  <<"{tag}", "_", "r", "e", "p", "u", "b", "l", "i", "c", ".", "t", "g", "a">> >>

\* str.format(tag=tag): every replacement field is replaced by the tag
RECURSIVE Format(_, _)
Format(template, tag) ==
  IF template = <<>> THEN <<>>
  ELSE IF Head(template) = "{tag}" THEN tag \o Format(Tail(template), tag)
  ELSE <<Head(template)>> \o Format(Tail(template), tag)

\* the fixed name of the template, "GHO.tga"
TemplateName == <<"G", "H", "O", ".", "t", "g", "a">>

\* every file name the folder is tracked for
Names == {Format(required_flags[j], t) : j \in 1..Len(required_flags), t \in TagUniverse}

\* a folder entry: nothing, a regular file with its bytes, or a sub-directory
\* together with the bytes of the GHO.tga inside it ("-" when there is none)
Absent == [kind |-> "none", data |-> "-"]
File(d) == [kind |-> "file", data |-> d]
SubDir(d) == [kind |-> "dir", data |-> d]

\* os.path.isfile(os.path.join(folder_path, name))
isfile(d, name) == name \in DOMAIN d /\ d[name].kind = "file"

\* os.path.isdir, as shutil.copy2 asks it of its destination
isdir(d, name) == name \in DOMAIN d /\ d[name].kind = "dir"

\* ---------------------------------------------------------------- validate_flags
\* The result carries the returned list (missing) and the names handed to
\* os.path.isfile, in call order (checked).

\* bug variant: a name already reported is not reported again
RECURSIVE ValidateLoopDedup(_, _, _, _, _, _)
ValidateLoopDedup(d, tagList, i, j, missing, checked) ==
  IF i > Len(tagList) THEN [missing |-> missing, checked |-> checked]
  ELSE IF j > Len(required_flags) THEN ValidateLoopDedup(d, tagList, i + 1, 1, missing, checked)
  ELSE LET flag_file == Format(required_flags[j], tagList[i])
       IN IF ~isfile(d, flag_file) /\ \A k \in 1..Len(missing) : missing[k] # flag_file
            THEN ValidateLoopDedup(d, tagList, i, j + 1,
                                   Append(missing, flag_file), Append(checked, flag_file))
            ELSE ValidateLoopDedup(d, tagList, i, j + 1, missing, Append(checked, flag_file))

validate_flags_dedup(d, tagList) == ValidateLoopDedup(d, tagList, 1, 1, <<>>, <<>>)

\* bug variant: the two loops nested the other way round
RECURSIVE ValidateLoopSwapped(_, _, _, _, _, _)
ValidateLoopSwapped(d, tagList, i, j, missing, checked) ==
  IF j > Len(required_flags) THEN [missing |-> missing, checked |-> checked]
  ELSE IF i > Len(tagList) THEN ValidateLoopSwapped(d, tagList, 1, j + 1, missing, checked)
  ELSE LET flag_file == Format(required_flags[j], tagList[i])
       IN IF ~isfile(d, flag_file)
            THEN ValidateLoopSwapped(d, tagList, i + 1, j,
                                     Append(missing, flag_file), Append(checked, flag_file))
            ELSE ValidateLoopSwapped(d, tagList, i + 1, j, missing, Append(checked, flag_file))

\* for tag in tags: for flag_template in required_flags: ...
RECURSIVE ValidateLoop(_, _, _, _, _, _)
ValidateLoop(d, tagList, i, j, missing, checked) ==
  IF i > Len(tagList) THEN [missing |-> missing, checked |-> checked]
  ELSE IF j > Len(required_flags) THEN ValidateLoop(d, tagList, i + 1, 1, missing, checked)
  ELSE LET flag_file == Format(required_flags[j], tagList[i])
       IN IF ~isfile(d, flag_file)
            THEN ValidateLoop(d, tagList, i, j + 1,
                              Append(missing, flag_file), Append(checked, flag_file))
            ELSE ValidateLoop(d, tagList, i, j + 1, missing, Append(checked, flag_file))

validate_flags(d, tagList) == ValidateLoop(d, tagList, 1, 1, <<>>, <<>>)

\* ---------------------------------------------------------------- create_missing_flags
\* what the environment does to one copy: it goes through, it is refused before
\* the destination is opened (permission, path error), or it breaks off after the
\* destination was opened for writing (disk full)
CopyModes == {"ok", "denied", "partial"}

Put(d, name, entry) == [n \in DOMAIN d \cup {name} |-> IF n = name THEN entry ELSE d[n]]

\* bug variant: the destination is opened for writing without asking whether
\* it is the source itself, which cuts the source to nothing
Copy2Unchecked(d, target, mode) ==
  IF ~isfile(d, TemplateName) \/ mode = "denied" THEN [dir |-> d, raised |-> TRUE]
  ELSE IF isdir(d, target)
         THEN IF mode = "ok" THEN [dir |-> Put(d, target, SubDir(d[TemplateName].data)),
                                   raised |-> FALSE]
                             ELSE [dir |-> Put(d, target, SubDir("cut")), raised |-> TRUE]
  ELSE IF target = TemplateName THEN [dir |-> Put(d, target, File("cut")), raised |-> FALSE]
  ELSE IF mode = "ok" THEN [dir |-> Put(d, target, File(d[TemplateName].data)),
                            raised |-> FALSE]
  ELSE [dir |-> Put(d, target, File("cut")), raised |-> TRUE]

\* shutil.copy2(template_file, target_path) inside the try block: the folder
\* afterwards and whether the call raised
Copy2(d, target, mode) ==
  IF ~isfile(d, TemplateName) \/ mode = "denied" THEN [dir |-> d, raised |-> TRUE]
  ELSE IF isdir(d, target)
         THEN IF mode = "ok" THEN [dir |-> Put(d, target, SubDir(d[TemplateName].data)),
                                   raised |-> FALSE]
                             ELSE [dir |-> Put(d, target, SubDir("cut")), raised |-> TRUE]
  ELSE IF target = TemplateName THEN [dir |-> d, raised |-> TRUE]
  ELSE IF mode = "ok" THEN [dir |-> Put(d, target, File(d[TemplateName].data)),
                            raised |-> FALSE]
  ELSE [dir |-> Put(d, target, File("cut")), raised |-> TRUE]

\* bug variant: the first failed copy ends the loop
RECURSIVE CreateLoopAbort(_, _, _, _, _, _, _)
CreateLoopAbort(d, missing, modes, i, ok, created, attempts) ==
  IF i > Len(missing)
    THEN [dir |-> d, success |-> ok, created |-> created, attempts |-> attempts]
    ELSE LET c == Copy2(d, missing[i], modes[i])
         IN IF c.raised
              THEN [dir |-> c.dir, success |-> FALSE, created |-> created,
                    attempts |-> Append(attempts, missing[i])]
              ELSE CreateLoopAbort(c.dir, missing, modes, i + 1, ok,
                                   Append(created, missing[i]), Append(attempts, missing[i]))

\* for flag_file in missing_flags: try: copy2 ... except: success = False
\* attempts lists the destinations copy2 was called with, in call order
RECURSIVE CreateLoop(_, _, _, _, _, _, _)
CreateLoop(d, missing, modes, i, ok, created, attempts) ==
  IF i > Len(missing)
    THEN [dir |-> d, success |-> ok, created |-> created, attempts |-> attempts]
    ELSE LET c == Copy2(d, missing[i], modes[i])
         IN IF c.raised
              THEN CreateLoop(c.dir, missing, modes, i + 1, FALSE,
                              created, Append(attempts, missing[i]))
              ELSE CreateLoop(c.dir, missing, modes, i + 1, ok,
                              Append(created, missing[i]), Append(attempts, missing[i]))

\* bug variant: the template is not looked for before the loop
create_missing_flags_nocheck(d, missing, modes) ==
  CreateLoop(d, missing, modes, 1, TRUE, <<>>, <<>>)

create_missing_flags(d, missing, modes) ==
  IF ~isfile(d, TemplateName)
    THEN [dir |-> d, success |-> FALSE, created |-> <<>>, attempts |-> <<>>]
    ELSE CreateLoop(d, missing, modes, 1, TRUE, <<>>, <<>>)

\* ---------------------------------------------------------------- inputs
\* lines a countries.txt is made of
Lines == {
  <<"G", "H", "O", " ", "=", " ", "x">>,
  <<"U", "S", "A", "=", "y">>,
  <<" ", " ", "U", "S", "A", " ", "=", " ", "z", " ", "\n">>,
  <<"A", "B", " ", "=", " ", "x">>,
  <<"A", " ", "=", " ", "x">>,
  <<"A", "B", "C", "D", " ", "=", " ", "x">>,
  <<"#", " ", "A", "B", "C", " ", "=", " ", "x">>,
  <<>>,
  <<" ", " ", " ", "\n">>,
  <<"u", "s", "a", " ", "=", " ", "x">>,
  <<"A", "1", "B", "\t", "=", "\n">>,
  <<"A", "B", "C", " ", "x">>,
  <<"=", "A", "B", "C">>,
  <<"A", "B", " ", "C", " ", "=", " ", "x">> }

\* lines of the tag file the driver is run on
DriverLines == {
  <<"G", "H", "O", " ", "=", " ", "x">>,
  <<"U", "S", "A", "=", "y">>,
  <<"#", " ", "A", "B", "C", " ", "=", " ", "x">>,
  <<"A", "B", " ", "=", " ", "x">> }

\* answers typed at the (y/n) prompt
Answers == {<<"y">>, <<"Y">>, <<" ", "y", "\n">>, <<"y", "e", "s">>, <<"n">>, <<>>}

SeqsUpTo(S, n) == UNION {[1..k -> S] : k \in 0..n}

\* names that may be something else than a regular file when the program starts:
\* the template, and the first and the last suffix of the two tags
OddNames == {Format(required_flags[1], GHO), Format(required_flags[5], GHO),
             Format(required_flags[1], USA), Format(required_flags[5], USA)}

\* folders the program is started on: every tracked name is a regular file,
\* except for at most MaxOdd names that are absent or are sub-directories
StartDirs ==
  UNION {
    { [n \in Names |-> IF n \in odd THEN f[n]
                       ELSE IF n = TemplateName THEN File("T") ELSE File("X")]
      : f \in [odd -> {Absent, SubDir("-")}] }
    : odd \in {S \in SUBSET OddNames : Cardinality(S) <= MaxOdd} }

\* names a caller asks create_missing_flags to create: the template itself, a
\* name that may be absent and a name that is always there
MissingNames == {Format(required_flags[1], GHO), Format(required_flags[1], USA),
                 Format(required_flags[2], USA)}

NotAsked == <<"(not asked)">>
NoCall == [fn |-> "none", lines |-> <<>>, failAt |-> NoFail, tagList |-> <<>>,
           missing |-> <<>>, modes |-> <<>>, pre |-> <<>>, ret |-> <<>>]

driverVars == <<pc, dir0, tags, missing_flags, typed, create_missing, success, recheck, trace>>

\* ---------------------------------------------------------------- direct calls
\* read_tags_from_file(file_path) on a file with the given lines
CallRead(lines, failAt) ==
  /\ pc = "lib"
  /\ call.fn = "none"
  /\ call' = [NoCall EXCEPT !.fn = "read", !.lines = lines, !.failAt = failAt,
                            !.ret = read_tags_from_file(lines, failAt)]
  /\ UNCHANGED <<dir, driverVars>>

\* validate_flags(folder_path, tags)
CallValidate(tagList) ==
  /\ pc = "lib"
  /\ call.fn = "none"
  /\ call' = [NoCall EXCEPT !.fn = "validate", !.tagList = tagList, !.pre = dir,
                            !.ret = validate_flags(dir, tagList)]
  /\ UNCHANGED <<dir, driverVars>>

\* create_missing_flags(folder_path, missing_flags)
CallCreate(missing, modes) ==
  /\ pc = "lib"
  /\ call.fn = "none"
  /\ LET r == create_missing_flags(dir, missing, modes)
     IN /\ call' = [NoCall EXCEPT !.fn = "create", !.missing = missing, !.modes = modes,
                                  !.pre = dir, !.ret = r]
        /\ dir' = r.dir
  /\ UNCHANGED driverVars

InitCalls ==
  /\ pc = "lib"
  /\ dir0 \in StartDirs
  /\ dir = dir0
  /\ tags = <<>>
  /\ missing_flags = <<>>
  /\ typed = NotAsked
  /\ create_missing = NotAsked
  /\ success = FALSE
  /\ recheck = <<>>
  /\ trace = <<>>
  /\ call = NoCall

\* the reader does not touch the folder: one folder is enough
InitReader ==
  /\ InitCalls
  /\ dir0 = [n \in Names |-> IF n = TemplateName THEN File("T") ELSE File("X")]

NextReader ==
  \E lines \in SeqsUpTo(Lines, MaxLines) :
    \E failAt \in {NoFail} \cup (0..(Len(lines) + 1)) : CallRead(lines, failAt)

SpecReader == InitReader /\ [][NextReader]_vars

NextCalls ==
  \/ \E tagList \in SeqsUpTo(TagUniverse, MaxTags) : CallValidate(tagList)
  \/ \E missing \in SeqsUpTo(MissingNames, MaxMissing) :
       \E modes \in [1..Len(missing) -> CopyModes] : CallCreate(missing, modes)

SpecCalls == InitCalls /\ [][NextCalls]_vars

\* ---------------------------------------------------------------- the driver
\* tags = read_tags_from_file(countries_file)
ReadTags ==
  /\ pc = "start"
  /\ \E lines \in SeqsUpTo(DriverLines, MaxLines) :
       \E failAt \in {NoFail} \cup (0..(Len(lines) + 1)) :
         tags' = read_tags_from_file(lines, failAt)
  /\ trace' = Append(trace, "read")
  /\ pc' = "tags_read"
  /\ UNCHANGED <<dir, dir0, missing_flags, typed, create_missing, success, recheck, call>>

\* if not tags: print("No valid country tags found in the file. Exiting.")
NoTags ==
  /\ pc = "tags_read"
  /\ tags = <<>>
  /\ pc' = "exit"
  /\ UNCHANGED <<dir, dir0, tags, missing_flags, typed, create_missing, success, recheck,
                 trace, call>>

\* missing_flags = validate_flags(folder_path, tags)
InitialCheck ==
  /\ pc = "tags_read"
  /\ tags # <<>>
  /\ missing_flags' = validate_flags(dir, tags).missing
  /\ trace' = Append(trace, "validate")
  /\ pc' = "checked"
  /\ UNCHANGED <<dir, dir0, tags, typed, create_missing, success, recheck, call>>

\* else: print("No need to create any missing files.")
NothingMissing ==
  /\ pc = "checked"
  /\ missing_flags = <<>>
  /\ pc' = "exit"
  /\ UNCHANGED <<dir, dir0, tags, missing_flags, typed, create_missing, success, recheck,
                 trace, call>>

\* bug variant: the answer is compared as typed, without lower()
AskCreateCaseSensitive ==
  /\ pc = "checked"
  /\ missing_flags # <<>>
  /\ \E answer \in Answers :
       /\ typed' = answer
       /\ create_missing' = Strip(answer)
  /\ pc' = "asked"
  /\ UNCHANGED <<dir, dir0, tags, missing_flags, success, recheck, trace, call>>

\* create_missing = input("... (y/n): ").strip().lower()
AskCreate ==
  /\ pc = "checked"
  /\ missing_flags # <<>>
  /\ \E answer \in Answers :
       /\ typed' = answer
       /\ create_missing' = Lower(Strip(answer))
  /\ pc' = "asked"
  /\ UNCHANGED <<dir, dir0, tags, missing_flags, success, recheck, trace, call>>

\* create_missing == 'y' is false: nothing more is done
Decline ==
  /\ pc = "asked"
  /\ create_missing # <<"y">>
  /\ pc' = "exit"
  /\ UNCHANGED <<dir, dir0, tags, missing_flags, typed, create_missing, success, recheck,
                 trace, call>>

\* if create_missing == 'y': create_missing_flags(folder_path, missing_flags)
CreateMissing ==
  /\ pc = "asked"
  /\ create_missing = <<"y">>
  /\ \E modes \in [1..Len(missing_flags) -> CopyModes] :
       LET r == create_missing_flags(dir, missing_flags, modes)
       IN /\ dir' = r.dir
          /\ success' = r.success
  /\ trace' = Append(trace, "create")
  /\ pc' = "created"
  /\ UNCHANGED <<dir0, tags, missing_flags, typed, create_missing, recheck, call>>

\* bug variant: the verification pass runs whatever create_missing_flags returned
VerificationCheckAlways ==
  /\ pc = "created"
  /\ recheck' = validate_flags(dir, tags).missing
  /\ trace' = Append(trace, "validate")
  /\ pc' = "exit"
  /\ UNCHANGED <<dir, dir0, tags, missing_flags, typed, create_missing, success, call>>

\* create_missing_flags returned True: validate_flags(folder_path, tags) again
VerificationCheck ==
  /\ pc = "created"
  /\ success
  /\ recheck' = validate_flags(dir, tags).missing
  /\ trace' = Append(trace, "validate")
  /\ pc' = "exit"
  /\ UNCHANGED <<dir, dir0, tags, missing_flags, typed, create_missing, success, call>>

\* else: print("Some files could not be created. ...")
CreateFailed ==
  /\ pc = "created"
  /\ ~success
  /\ pc' = "exit"
  /\ UNCHANGED <<dir, dir0, tags, missing_flags, typed, create_missing, success, recheck,
                 trace, call>>

Init ==
  /\ pc = "start"
  /\ dir0 \in StartDirs
  /\ dir = dir0
  /\ tags = <<>>
  /\ missing_flags = <<>>
  /\ typed = NotAsked
  /\ create_missing = NotAsked
  /\ success = FALSE
  /\ recheck = <<>>
  /\ trace = <<>>
  /\ call = NoCall

Next ==
  \/ ReadTags
  \/ NoTags
  \/ InitialCheck
  \/ NothingMissing
  \/ AskCreate
  \/ Decline
  \/ CreateMissing
  \/ VerificationCheck
  \/ CreateFailed

Spec == Init /\ [][Next]_vars

\* ---------------------------------------------------------------- properties
\* the names validate_flags has to look at, written without the loops:
\* position k belongs to tag (k-1) \div 5 + 1 and suffix (k-1) % 5 + 1
Candidates(tagList) ==
  [k \in 1..(5 * Len(tagList)) |->
     Format(required_flags[((k - 1) % 5) + 1], tagList[((k - 1) \div 5) + 1])]

\* a sequence restricted to the names that are not regular files in d
NotFiles(d, names) == LET absent(n) == ~isfile(d, n) IN SelectSeq(names, absent)

\* the run of the driver reached the verification pass
Verified == pc = "exit" /\ trace = <<"read", "validate", "create", "validate">>

\* C1 (as stated): when the initial check returned M and create_missing_flags(M)
\* returned True, the verification check returns the empty list.
C1_VerificationFindsNothing == Verified => recheck = <<>>

\* C2: without a regular file GHO.tga, create_missing_flags returns False,
\* calls no copy and leaves the folder exactly as it was, whatever the list.
C2_NoTemplateNoChange ==
  (call.fn = "create" /\ ~isfile(call.pre, TemplateName))
    => /\ call.ret.success = FALSE
       /\ call.ret.attempts = <<>>
       /\ dir = call.pre

C2_Witness ==
  /\ call.fn = "create"
  /\ ~isfile(call.pre, TemplateName)
  /\ Len(call.missing) = MaxMissing
  /\ \A i \in 1..Len(call.modes) : call.modes[i] = "ok"

\* copy number i of a call did not fail
CopyWentThrough(i) == call.modes[i] = "ok" /\ call.missing[i] # TemplateName

C4_MissingIsFilteredCandidates ==
  call.fn = "validate"
    => /\ Len(call.ret.checked) = 5 * Len(call.tagList)
       /\ call.ret.checked = Candidates(call.tagList)
       /\ call.ret.missing = NotFiles(call.pre, Candidates(call.tagList))
       /\ (call.ret.missing = <<>>)
            = (\A k \in 1..(5 * Len(call.tagList)) :
                 isfile(call.pre, Candidates(call.tagList)[k]))

C4_Witness ==
  /\ call.fn = "validate"
  /\ Len(call.tagList) = 2
  /\ call.tagList[1] # call.tagList[2]
  /\ Len(call.ret.missing) = 2
  /\ call.ret.missing[1] = Format(required_flags[5], call.tagList[1])
  /\ call.ret.missing[2] = Format(required_flags[1], call.tagList[2])

\* the required names of a tag list that are not regular files in d
AbsentRequired(d, tagList) ==
  {n \in {Candidates(tagList)[k] : k \in 1..(5 * Len(tagList))} : ~isfile(d, n)}

\* C5 (as stated): exactly one required file absent gives a missing-list of
\* length 1 holding that name.
C5_OneAbsentOneEntry ==
  (call.fn = "validate" /\ Cardinality(AbsentRequired(call.pre, call.tagList)) = 1)
    => /\ Len(call.ret.missing) = 1
       /\ call.ret.missing[1] \in AbsentRequired(call.pre, call.tagList)

\* C5 (amended): exactly one required file absent gives a missing-list that
\* holds that name and nothing else, once for every position of the tag list
\* the name is required by.
C5_OneAbsentOncePerOccurrence ==
  (call.fn = "validate" /\ Cardinality(AbsentRequired(call.pre, call.tagList)) = 1)
    => LET n == CHOOSE x \in AbsentRequired(call.pre, call.tagList) : TRUE
       IN /\ \A k \in 1..Len(call.ret.missing) : call.ret.missing[k] = n
          /\ Len(call.ret.missing) =
               Cardinality({i \in 1..Len(call.tagList) :
                              \E j \in 1..5 : Format(required_flags[j], call.tagList[i]) = n})
          /\ Len(call.ret.missing) >= 1

C5_Witness ==
  /\ call.fn = "validate"
  /\ Cardinality(AbsentRequired(call.pre, call.tagList)) = 1
  /\ Len(call.tagList) = 2
  /\ call.tagList[1] = call.tagList[2]
  /\ Len(call.ret.missing) = 2

\* a line that gives an identifier of exactly n characters: trimmed it is not
\* empty, does not start with '#', and is n characters of [A-Z0-9], then
\* whitespace (possibly none), then '='
GivesIdentifier(line, n) ==
  LET t == Strip(line)
  IN /\ t # <<>>
     /\ t[1] # "#"
     /\ \E k \in (n + 1)..Len(t) :
          /\ t[k] = "="
          /\ \A i \in 1..n : t[i] \in TagChars
          /\ \A i \in (n + 1)..(k - 1) : t[i] \in Whitespace

\* the identifiers of the lines of a file, in file order, for identifier
\* lengths in sizes
RECURSIVE Identifiers(_, _)
Identifiers(lines, sizes) ==
  IF lines = <<>> THEN <<>>
  ELSE IF \E n \in sizes : GivesIdentifier(Head(lines), n)
         THEN <<SubSeq(Strip(Head(lines)), 1,
                       CHOOSE n \in sizes : GivesIdentifier(Head(lines), n))>>
              \o Identifiers(Tail(lines), sizes)
         ELSE Identifiers(Tail(lines), sizes)

\* C6 (as stated): the result is the identifiers of one to three characters.
C6_OneToThreeCharacters ==
  (call.fn = "read" /\ call.failAt = NoFail)
    => call.ret = Identifiers(call.lines, 1..3)

\* C6 (amended): the result is, in file order and with duplicates kept, the
\* identifier of every line that trimmed is not empty, does not start with '#'
\* and begins with exactly three characters of [A-Z0-9], optional whitespace
\* and '='; every other line contributes nothing.
C6_ExactlyThreeCharacters ==
  (call.fn = "read" /\ call.failAt = NoFail)
    => call.ret = Identifiers(call.lines, {3})

C6_Witness ==
  /\ call.fn = "read"
  /\ call.failAt = NoFail
  /\ Len(call.lines) = 2
  /\ GivesIdentifier(call.lines[1], 2)
  /\ GivesIdentifier(call.lines[2], 3)
  /\ call.ret = <<SubSeq(Strip(call.lines[2]), 1, 3)>>

\* C7: when open() or any fetch from the file raises, the result is the empty
\* list, also when identifiers had been collected before.
C7_FailureGivesEmpty ==
  (call.fn = "read" /\ call.failAt # NoFail) => call.ret = <<>>

C7_Witness ==
  /\ call.fn = "read"
  /\ call.failAt = 2
  /\ Len(call.lines) = 2
  /\ GivesIdentifier(call.lines[1], 3)
  /\ call.ret = <<>>

\* C8: the driver calls read, validate, create, validate in this order only;
\* nothing follows an empty tag list; create needs a non-empty first
\* missing-list and a confirmation; the second validate needs create to have
\* returned True; create runs at most once and validate at most twice.
C8_DriverOrder ==
  /\ trace \in {<<>>, <<"read">>, <<"read", "validate">>, <<"read", "validate", "create">>,
                <<"read", "validate", "create", "validate">>}
  /\ (Len(trace) >= 2 => tags # <<>>)
  /\ (Len(trace) >= 3 => (missing_flags # <<>> /\ create_missing = <<"y">>))
  /\ (Len(trace) >= 4 => success)
  /\ ((pc = "exit" /\ tags = <<>>) => (trace = <<"read">> /\ dir = dir0))

C8_Witness == Verified /\ success /\ Len(tags) = 2

\* the prompt was answered and the driver acted on the answer
Answered == typed # NotAsked /\ pc \in {"created", "exit"}

Provisioned == \E i \in 1..Len(trace) : trace[i] = "create"

\* C9 (as stated): provisioning starts exactly when the input is y.
C9_OnlyLiteralY ==
  Answered => (Provisioned = (typed = <<"y">>))

\* C9 (amended): provisioning starts exactly when the input, trimmed and
\* lower-cased, is y; after any other input the folder is as it was.
C9_TrimmedLowercasedY ==
  Answered => /\ Provisioned = (Lower(Strip(typed)) = <<"y">>)
              /\ (~Provisioned => dir = dir0)

C9_Witness ==
  /\ Answered
  /\ typed = <<"Y">>
  /\ Provisioned
  /\ dir # dir0

====
